---- MODULE Spec2Model ----
(***************************************************************************)
(* Cross-file unused-import analysis: CrossFileAnalyzer.analyze of         *)
(* remove_unused_imports/_cross_file.py, run over an import graph.         *)
(*                                                                         *)
(* The graph (nodes, edges) and the single-file results are the inputs of  *)
(* analyze; they are drawn in Init from a bounded universe of projects.    *)
(* The fixed-point loop is modelled statement by statement: one action     *)
(* per entry into the while body, one per iteration of the inner for       *)
(* loops (taken in any order), one for the code after the loop.            *)
(***************************************************************************)
EXTENDS Integers, FiniteSets, Sequences, TLC

\* ------------------------------------------------------------------ bounds
\* At most this many module-scope import bindings in the whole project.
MaxBindings == 3

\* ---------------------------------------------------------------- universe
Files == {"a", "b", "c"}
\* The target of an import that resolves outside the project.
Ext == "ext"
\* X is the imported attribute; Z is the alias a file may bind it to.
Names == {"X", "Z"}

\* ImportInfo: name is the local name bound in the importing file, attr the
\* name imported from the module src (`from src import attr as name`).
BindingsOf(f) ==
    {[name |-> "X", attr |-> "X", src |-> s] : s \in (Files \ {f}) \cup {Ext}}
    \cup {[name |-> "Z", attr |-> "X", src |-> s] : s \in Files \ {f}}

AllBindings == UNION {BindingsOf(f) : f \in Files}

Universe == {[file |-> f, imp |-> b] : f \in Files, b \in AllBindings}

Placed == {p \in Universe : p.imp \in BindingsOf(p.file)}

\* The attributes of a module besides its imports: whether it defines X at
\* module scope, its __all__ ("absent", "empty" or "with": X listed in it),
\* and whether its source can be read.
DefaultProfile == [defines |-> FALSE, all |-> "absent", readable |-> TRUE]

Profiles ==
    {[defines |-> d, all |-> x, readable |-> TRUE] :
        d \in BOOLEAN, x \in {"absent", "empty", "with"}}
    \cup {[defines |-> FALSE, all |-> "absent", readable |-> FALSE]}

\* The projects of Init have at most one module with a non-default profile.
\* The universe of bindings is the same for every file, so up to a renaming
\* of the files that module is b.
SpecialFile == "b"

ProfileMaps ==
    {[f \in Files |-> IF f = SpecialFile THEN pr ELSE DefaultProfile] :
        pr \in Profiles}

VARIABLES
    nodes,               \* graph.nodes: file -> ModuleInfo
    edges,               \* graph.edges: the ImportEdges of the project
    has_all,             \* files whose source holds an __all__ assignment
    unreadable,          \* files whose read_text raises OSError
    flagged,             \* file -> bindings find_unused_imports returns for it
    single_file_unused,  \* analyze's dict: file -> unused bindings
    all_removed,         \* analyze's defaultdict(set): file -> names
    changed,             \* analyze's loop flag
    reexported,          \* the dict computed at the top of the while body
    todo,                \* (file, binding) pairs the for loops still visit
    passes,              \* entries into the while body so far
    result,              \* the CrossFileResult being built
    pc                   \* position in analyze

vars == <<nodes, edges, has_all, unreadable, flagged, single_file_unused,
          all_removed, changed, reexported, todo, passes, result, pc>>

inputs == <<nodes, edges, has_all, unreadable, flagged>>

\* dict.get(key, set())
Get(d, k) == IF k \in DOMAIN d THEN d[k] ELSE {}

\* ------------------------------------------------------------------- graph
\* The edges the graph builder emits for the imports of the modules: one
\* per importer and imported module, carrying the imported attribute names
\* (the underlying name of an aliased import).
BuildEdges(modules) ==
    {[importer |-> q[1], imported |-> q[2], is_external |-> (q[2] = Ext),
      names |-> {b.attr : b \in {i \in modules[q[1]].imports : i.src = q[2]}}] :
        q \in {x \in Files \X (Files \cup {Ext}) :
                  \E i \in modules[x[1]].imports : i.src = x[2]}}

\* graph.get_importers(file_path)
GetImporters(file_path) ==
    {e \in edges : ~e.is_external /\ e.imported = file_path}

\* ---------------------------------------------------------------- analysis
\* Mutant: the read failure is not caught per file, so a file that cannot be
\* read is analysed like the others.
GetSingleFileUnusedNoSkip ==
    [f \in {g \in Files : flagged[g] # {}} |-> flagged[f]]

\* _get_single_file_unused: files that cannot be read are skipped, files
\* with nothing flagged get no entry.
GetSingleFileUnused ==
    [f \in {g \in Files : g \notin unreadable /\ flagged[g] # {}} |-> flagged[f]]

\* Lines 141-143: the edge's names minus the importer's removed names.
ActiveNames(edge, removed) == edge.names \ Get(removed, edge.importer)

\* Mutant: the defined-names test of line 161 is dropped.
IsReexportedNameNoDefinedTest(name, module_info) ==
    name \in {imp.name : imp \in module_info.imports}

\* Lines 155-161: the name is an import of the target file, not defined there.
IsReexportedName(name, module_info) ==
    /\ name \in {imp.name : imp \in module_info.imports}
    /\ name \notin module_info.defined_names

\* _find_reexported_imports(removed_imports): only files that get a name
\* have an entry (defaultdict, converted to dict).
ReexportedNames(file_path, removed) ==
    {name \in Names :
        \E edge \in edges :
            /\ ~(edge.is_external \/ edge.imported = Ext)
            /\ edge.imported = file_path
            /\ name \in ActiveNames(edge, removed)
            /\ edge.imported \in DOMAIN nodes
            /\ IsReexportedName(name, nodes[edge.imported])}

FindReexportedImports(removed) ==
    LET all == [f \in Files |-> ReexportedNames(f, removed)]
    IN [f \in {g \in Files : all[g] # {}} |-> all[f]]

\* Lines 183-186: the importers whose edge carries the name.
UsedBy(file_path, name) ==
    {edge.importer : edge \in {e \in GetImporters(file_path) : name \in e.names}}

\* Mutant: the __all__ test is dropped.
NotInExportsDropped(name, exports) == TRUE

\* Line 181: `name not in exports`.
NotInExports(name, exports) == name \notin exports

\* _find_implicit_reexports(reexported)
FindImplicitReexports(reexp) ==
    {[source_file |-> f, import_name |-> name, used_by |-> UsedBy(f, name)] :
        <<f, name>> \in {q \in (DOMAIN reexp) \X Names :
                           /\ q[1] \in DOMAIN nodes
                           /\ q[2] \in reexp[q[1]]
                           /\ NotInExports(q[2], nodes[q[1]].exports)}}

\* Mutant: the test of line 73 is dropped, so a removed name counts as a
\* change in every pass.
ToRemoveNoSeenTest(imp, reexported_names, removed_names) ==
    imp.name \notin reexported_names

\* Mutant: the test of line 72 is dropped, so re-exported names are removed.
ToRemoveNoReexportTest(imp, reexported_names, removed_names) ==
    imp.name \notin removed_names

\* Lines 72-73: unused locally, not re-exported, not yet removed.
ToRemove(imp, reexported_names, removed_names) ==
    /\ imp.name \notin reexported_names
    /\ imp.name \notin removed_names

\* Mutant: the name replaces the set instead of joining it.
AddNameOverwrite(removed_names, name) == {name}

\* Line 74: all_removed[file_path].add(imp.name)
AddName(removed_names, name) == removed_names \cup {name}

\* Mutant: the flag is assigned by every iteration, so the last one decides.
ChangedLastOnly(old, added) == added

\* Line 75 (and line 63 before it): the flag after one inner iteration.
ChangedAfter(old, added) == old \/ added

\* Lines 78-84: the unused bindings of the files that have any.
BuildUnusedImports(removed) ==
    [f \in {g \in Files :
              \E imp \in Get(single_file_unused, g) : imp.name \in removed[g]} |->
        {imp \in Get(single_file_unused, f) : imp.name \in removed[f]}]

\* _aggregate_external_usage: module name -> the files importing it.
AggregateExternalUsage ==
    [m \in {e.imported : e \in {x \in edges : x.is_external}} |->
        {e.importer : e \in {x \in edges : x.is_external /\ x.imported = m}}]

\* f reaches g along internal import edges (paths of at most three edges
\* suffice among three files).
ImportsFile(f, g) == \E e \in edges : e.importer = f /\ e.imported = g

Reaches(f, g) ==
    \/ ImportsFile(f, g)
    \/ \E h \in Files : ImportsFile(f, h) /\ ImportsFile(h, g)
    \/ \E h, k \in Files : ImportsFile(f, h) /\ ImportsFile(h, k) /\ ImportsFile(k, g)

\* graph.find_cycles(): the strongly connected components of more than one
\* file, each as the set of its files.
FindCycles ==
    {c \in {{g \in Files : g = f \/ (Reaches(f, g) /\ Reaches(g, f))} : f \in Files} :
        Cardinality(c) > 1}

\* -------------------------------------------------------------------- Init
\* CrossFileResult(): the four fields, all empty.
NoResult == [unused_imports |-> <<>>, implicit_reexports |-> {},
             external_usage |-> <<>>, circular_imports |-> {}]

Init ==
    /\ \E bs \in {s \in SUBSET Placed : Cardinality(s) <= MaxBindings} :
       \E fl \in SUBSET bs :
       \E pm \in ProfileMaps :
          /\ nodes = [f \in Files |->
                [imports |-> {p.imp : p \in {q \in bs : q.file = f}},
                 defined_names |-> IF pm[f].defines THEN {"X"} ELSE {},
                 exports |-> IF pm[f].all = "with" THEN {"X"} ELSE {}]]
          /\ edges = BuildEdges(nodes)
          /\ has_all = {f \in Files : pm[f].all # "absent"}
          /\ unreadable = {f \in Files : ~pm[f].readable}
          \* A binding whose local name is listed in __all__ is used.
          /\ \A p \in fl : p.imp.name \notin nodes[p.file].exports
          /\ flagged = [f \in Files |-> {p.imp : p \in {q \in fl : q.file = f}}]
    /\ single_file_unused = <<>>
    /\ all_removed = [f \in Files |-> {}]
    /\ changed = TRUE
    /\ reexported = <<>>
    /\ todo = {}
    /\ passes = 0
    /\ result = NoResult
    /\ pc = "start"

\* ----------------------------------------------------------------- actions
\* Lines 53-61: step 1 and the initialisation of the loop.
SingleFileStep ==
    /\ pc = "start"
    /\ single_file_unused' = GetSingleFileUnused
    /\ all_removed' = [f \in Files |-> {}]
    /\ changed' = TRUE
    /\ pc' = "while"
    /\ UNCHANGED <<inputs, reexported, todo, passes, result>>

\* Lines 62-66: the loop test succeeds; the re-exports are recomputed.
EnterPass ==
    /\ pc = "while"
    /\ changed
    /\ changed' = FALSE
    /\ reexported' = FindReexportedImports(all_removed)
    /\ todo' = {[file |-> f, imp |-> imp] :
                  <<f, imp>> \in {q \in (DOMAIN single_file_unused) \X AllBindings :
                                    q[2] \in single_file_unused[q[1]]}}
    /\ passes' = passes + 1
    /\ pc' = IF todo' = {} THEN "while" ELSE "for"
    /\ UNCHANGED <<inputs, single_file_unused, all_removed, result>>

\* Lines 69-75: one iteration of the inner loop, for one unused binding.
VisitImport(p) ==
    /\ pc = "for"
    /\ p \in todo
    /\ LET rm == ToRemove(p.imp, Get(reexported, p.file), all_removed[p.file])
       IN /\ all_removed' =
                IF rm THEN [all_removed EXCEPT ![p.file] = AddName(@, p.imp.name)]
                ELSE all_removed
          /\ changed' = ChangedAfter(changed, rm)
    /\ todo' = todo \ {p}
    /\ pc' = IF todo' = {} THEN "while" ELSE "for"
    /\ UNCHANGED <<inputs, single_file_unused, reexported, passes, result>>

\* Lines 77-97: the loop test fails; the result is built and returned.
BuildResult ==
    /\ pc = "while"
    /\ ~changed
    /\ result' = [unused_imports |-> BuildUnusedImports(all_removed),
                  implicit_reexports |->
                      FindImplicitReexports(FindReexportedImports(all_removed)),
                  external_usage |-> AggregateExternalUsage,
                  circular_imports |-> FindCycles]
    /\ pc' = "done"
    /\ UNCHANGED <<inputs, single_file_unused, all_removed, changed,
                   reexported, todo, passes>>

Next ==
    \/ SingleFileStep
    \/ EnterPass
    \/ \E p \in Placed : VisitImport(p)
    \/ BuildResult

Spec == Init /\ [][Next]_vars

\* ------------------------------------------------------- claim vocabulary
Done == pc = "done"

\* The names single-file analysis flags unused in f (none when f is never
\* analysed because it cannot be read).
UNames(f) == IF f \in unreadable THEN {} ELSE {b.name : b \in flagged[f]}

\* The names analyze reports unused in f.
Reported(f) == {imp.name : imp \in Get(result.unused_imports, f)}

\* f imports the name n from g, under whatever local name.
ImportsName(f, g, n) == \E b \in nodes[f].imports : b.src = g /\ b.attr = n

\* f imports the name n from g without an alias.
ImportsUnaliased(f, g, n) == [name |-> n, attr |-> n, src |-> g] \in nodes[f].imports

\* n is bound by an import of f and is not a defined name of f.
ImportNotDefined(f, n) ==
    /\ \E i \in nodes[f].imports : i.name = n
    /\ n \notin nodes[f].defined_names

\* The re-export set of f for a removal set, as section 4.7 defines it.
SpecReexported(f, removed) ==
    {n \in Names : /\ ImportNotDefined(f, n)
                   /\ \E g \in Files : ImportsName(g, f, n) /\ n \notin removed[g]}

\* Sequences of distinct files.
Range(s) == {s[i] : i \in DOMAIN s}

Chains ==
    {s \in UNION {[1..k -> Files] : k \in 1..Cardinality(Files)} :
        \A i, j \in DOMAIN s : i # j => s[i] # s[j]}

\* --------------------------------------------------------------------- C1
\* s is a chain for n as C1 describes it: each file imports n unaliased from
\* the next, the last one from a module outside the chain; n is flagged in
\* every file, is an import and not a definition in all but the first, and
\* no file outside the chain imports n from a file of the chain.
IsCascadeChain(s, n) ==
    /\ \A i \in 1..(Len(s) - 1) : ImportsUnaliased(s[i], s[i + 1], n)
    /\ \E m \in (Files \cup {Ext}) \ Range(s) : ImportsUnaliased(s[Len(s)], m, n)
    /\ \A i \in DOMAIN s : n \in UNames(s[i])
    /\ \A i \in 2..Len(s) : ImportNotDefined(s[i], n)
    /\ \A g \in Files \ Range(s) : \A i \in DOMAIN s : ~ImportsName(g, s[i], n)

\* C1: when analyze returns, n is reported unused in every file of every
\* re-export chain for n.
C1_CascadeAlongChain ==
    Done => \A n \in Names : \A s \in Chains :
                IsCascadeChain(s, n) => \A i \in DOMAIN s : n \in Reported(s[i])

\* The cascade does hold along the chains in which a file of the chain
\* imports n from no file of the chain but its successor: C1 fails only on
\* import cycles among the files of the chain (see C3).
C1_ChainWithoutBackEdges ==
    Done => \A n \in Names : \A s \in Chains :
                ( /\ IsCascadeChain(s, n)
                  /\ \A i, j \in DOMAIN s :
                        j # i + 1 => ~ImportsName(s[i], s[j], n) )
                => \A i \in DOMAIN s : n \in Reported(s[i])

\* --------------------------------------------------------------------- C2
\* C2: when analyze returns, a name n that is an import and not a definition
\* of f, and that another file imports from f through a binding its own
\* single-file analysis does not flag, is not reported unused in f.
C2_ReexportProtected ==
    Done => \A f \in Files : \A g \in Files \ {f} : \A n \in Names :
                ( /\ ImportNotDefined(f, n)
                  /\ \E b \in nodes[g].imports :
                        b.src = f /\ b.attr = n /\ b \notin flagged[g] )
                => n \notin Reported(f)

\* --------------------------------------------------------------------- C3
\* n reaches a user from f: some file imports n from f through a binding that
\* is not flagged, or imports it through a flagged one and n reaches a user
\* from that file in turn.
RECURSIVE ReachesUser(_, _, _)
ReachesUser(f, n, seen) ==
    \E g \in Files \ seen :
        \E b \in nodes[g].imports :
            /\ b.src = f
            /\ b.attr = n
            /\ \/ b \notin flagged[g] \/ g \in unreadable
               \/ ReachesUser(g, n, seen \cup {g})

\* C3: when analyze returns, a name flagged in f that is not reported unused
\* in f is re-exported, along a chain of import edges, to a file that
\* imports it and is not flagged for it.
C3_UsedOnlyIfReexportedToUser ==
    Done => \A f \in Files : \A n \in UNames(f) :
                n \notin Reported(f) => ReachesUser(f, n, {f})

\* --------------------------------------------------------------------- C4
\* The (source_file, import_name) pairs of the reported implicit re-exports.
ImplicitPairs ==
    {<<r.source_file, r.import_name>> : r \in result.implicit_reexports}

C5_UsedByAreUsers ==
    Done => \A r \in result.implicit_reexports :
                r.used_by = {g \in Files :
                                /\ ImportsName(g, r.source_file, r.import_name)
                                /\ r.import_name \notin all_removed[g]}

\* --------------------------------------------------------------------- C6
\* One pass of the loop of section 4.7 over a removal set, and its iterates
\* from the empty removal set.
SpecPass(removed) ==
    [f \in Files |->
        removed[f] \cup {n \in UNames(f) : n \notin SpecReexported(f, removed)}]

RECURSIVE SpecIterate(_)
SpecIterate(k) ==
    IF k = 0 THEN [f \in Files |-> {}] ELSE SpecPass(SpecIterate(k - 1))

RECURSIVE SpecFixpoint(_)
SpecFixpoint(removed) ==
    IF SpecPass(removed) = removed THEN removed
    ELSE SpecFixpoint(SpecPass(removed))

\* C6: whatever the order in which the bindings are visited, the removal
\* set between two passes is the iterate of the pass function, and the
\* returned unused imports and implicit re-exports are those of its
\* fixed point: functions of the graph and the single-file results alone.
C6_OrderIndependent ==
    /\ pc = "while" => all_removed = SpecIterate(passes)
    /\ Done =>
        LET fix == SpecFixpoint([f \in Files |-> {}]) IN
        /\ all_removed = fix
        /\ \A f \in Files :
              Get(result.unused_imports, f) =
                  IF f \in unreadable THEN {}
                  ELSE {b \in flagged[f] : b.name \in fix[f]}
        /\ result.implicit_reexports =
              {[source_file |-> q[1], import_name |-> q[2],
                used_by |-> {g \in Files : ImportsName(g, q[1], q[2])}] :
                  q \in {x \in Files \X Names :
                            /\ x[2] \in SpecReexported(x[1], fix)
                            /\ x[2] \notin nodes[x[1]].exports}}

\* A pass has two bindings left to visit, in either order, and the run has
\* to cascade (a second pass changes the removal set).
C6_Witness ==
    /\ Done
    /\ passes >= 3
    /\ Cardinality(UNION {{<<f, b>> : b \in Get(single_file_unused, f)} : f \in Files}) >= 2

C8_MonotoneCascade ==
    [][\A f \in Files : all_removed[f] \subseteq all_removed'[f]]_vars

\* A second pass has just added a name: the removal sets grew in two
\* successive passes.
C8_Witness ==
    /\ pc = "while"
    /\ passes = 2
    /\ changed
    /\ \E f \in Files : all_removed[f] # {}

\* --------------------------------------------------------------------- C9
Max(S) == CHOOSE x \in S : \A y \in S : y <= x

\* The number of files of the longest chain for n that starts at f: each
\* file imports n from the next and has n flagged.
RECURSIVE LongestChain(_, _, _)
LongestChain(f, n, seen) ==
    LET next == {g \in Files \ seen : ImportsName(f, g, n) /\ n \in UNames(g)}
    IN IF next = {} THEN 1
       ELSE 1 + Max({LongestChain(g, n, seen \cup {g}) : g \in next})

\* d: the depth of the longest re-export chain, 0 when nothing is flagged.
Depth ==
    Max({0} \cup {LongestChain(q[1], q[2], {q[1]}) :
                    q \in {x \in Files \X Names : x[2] \in UNames(x[1])}})

\* C9: the while body is entered at most d + 1 times, and analyze can
\* always take a step until it has returned.
C9_PassBound ==
    /\ [](passes <= 1 \/ passes <= Depth + 1)
    /\ [](~Done => ENABLED Next)

\* A run over a chain of three files that needs all of its four passes.
C9_Witness == Done /\ Depth = 3 /\ passes = 4

\* -------------------------------------------------------------------- C10
\* C10: when analyze returns, the names reported unused in f are the flagged
\* names of f that are not in its final re-export set; no reported name is
\* the name of an implicit re-export of the same file, and every reported
\* binding is one single-file analysis flagged.
C10_StableResult ==
    Done => \A f \in Files :
        /\ Reported(f) = UNames(f) \ SpecReexported(f, all_removed)
        /\ \A r \in result.implicit_reexports :
              r.source_file = f => r.import_name \notin Reported(f)
        /\ Get(result.unused_imports, f) \subseteq flagged[f]

\* One file reports a flagged name while another keeps a flagged name
\* because it is still re-exported.
C10_Witness ==
    /\ Done
    /\ \E f \in Files : Reported(f) # {}
    /\ \E g \in Files : \E n \in UNames(g) : n \in SpecReexported(g, all_removed)

\* -------------------------------------------------------------------- C11
\* n is bound by an import of f and is also a defined name of f.
ImportAndDefined(f, n) ==
    /\ \E i \in nodes[f].imports : i.name = n
    /\ n \in nodes[f].defined_names

\* C11: a name n that is both an import binding and a defined name of f is
\* in the re-export set of f in no pass, whatever files import n from f; if
\* n is flagged in f it is in the removal set of f once the first pass is
\* over and is reported unused in f, and no implicit re-export (f, n, _) is
\* reported.
C11_DefinitionsShadow ==
    \A f \in Files : \A n \in Names :
        ImportAndDefined(f, n) =>
            /\ n \notin Get(reexported, f)
            /\ (n \in UNames(f) /\ (passes >= 2 \/ (passes = 1 /\ pc # "for")))
                  => n \in all_removed[f]
            /\ Done => /\ n \in UNames(f) => n \in Reported(f)
                       /\ <<f, n>> \notin ImplicitPairs

\* A file defines a name it also imports, the import is flagged, another
\* file imports that name from it through a binding that is not flagged,
\* and the name is reported unused.
C11_Witness ==
    /\ Done
    /\ \E f \in Files : \E n \in UNames(f) :
          /\ ImportAndDefined(f, n)
          /\ \E g \in Files \ {f} : \E b \in nodes[g].imports \ flagged[g] :
                b.src = f /\ b.attr = n /\ b.name = n
          /\ n \in Reported(f)

\* -------------------------------------------------------------------- C12
\* The case of C12: g imports n from f under an alias, single-file analysis
\* of g flags every binding through which g imports n from f, no other file
\* imports n from f, and n is a flagged import, not a definition, of f.
IsAliasCascade(f, g, n) ==
    /\ g # f
    /\ g \notin unreadable
    /\ \E b \in flagged[g] : b.src = f /\ b.attr = n /\ b.name # n
    /\ \A b \in nodes[g].imports : (b.src = f /\ b.attr = n) => b \in flagged[g]
    /\ \A h \in Files \ {g} : ~ImportsName(h, f, n)
    /\ n \in UNames(f)
    /\ ImportNotDefined(f, n)

\* C12: when analyze returns, the alias binding of g is reported unused and
\* n, which g alone imported from f, is reported unused in f as well.
C12_CascadeFollowsAlias ==
    Done => \A f \in Files : \A g \in Files : \A n \in Names :
                IsAliasCascade(f, g, n) =>
                    /\ \E b \in Get(result.unused_imports, g) :
                          b.src = f /\ b.attr = n /\ b.name # n
                    /\ n \in Reported(f)

====
